---- MODULE Spec2Model ----
(***************************************************************************)
(* A model of the lambda-calculus evaluator of lambda.hpp: the three term  *)
(* classes (Variable, Abstraction, Application), their to_string, reduce,  *)
(* apply and substitute methods, and the driver loop of main().            *)
(*                                                                         *)
(* A term is a record tagged by its dynamic class:                         *)
(*   Variable     [k |-> "V", n |-> name]      name: a sequence of chars   *)
(*   Abstraction  [k |-> "L", v |-> Variable, b |-> term]                  *)
(*   Application  [k |-> "A", f |-> term, a |-> term]                      *)
(* std::string values are sequences of one-character strings, so that      *)
(* to_string really concatenates and string comparison is comparison of    *)
(* the characters.                                                         *)
(***************************************************************************)
EXTENDS Integers, Sequences, FiniteSets, TLC

VARIABLES
    MAIN,       \* the term main() evaluates
    reduced,    \* main()'s unique_ptr `reduced`
    pc,         \* position of main()
    steps,      \* completed iterations of main()'s while loop
    op,         \* the single method call in progress (call specifications)
    self,       \* its receiver (*this)
    argument,   \* its term argument
    variable,   \* its Variable argument (substitute)
    result,     \* what it returned
    ub,         \* what the build made of the last cast of undefined behaviour
    stack,      \* the terms whose substitute call is still to be made
    heap        \* the objects allocated so far (heap specification)

vars == <<MAIN, reduced, pc, steps, op, self, argument, variable, result, ub,
          stack, heap>>

----------------------------------------------------------------------------
(* Bounds of the model.                                                    *)

\* depth of the enumerated terms main() is started on
MaxDepth == 2
\* depth of the enumerated receivers and arguments of single calls
OpDepth == 1
\* nesting of Application::apply activations the stack is given
MaxUnwind == 6
\* iterations of main()'s loop that are followed
MaxSteps == 6
\* depth up to which a growing head is followed in the unwinding of apply
MaxGrow == 7
\* beta steps the reference normal-order reduction is given
MaxBeta == 4
\* calls of substitute that one substitution is followed for
MaxCalls == 64
\* calls made one on the result of the other (heap specification)
MaxChain == 3

----------------------------------------------------------------------------
(* Terms.                                                                  *)

Var(name) == [k |-> "V", n |-> name]
Abs(v, definition) == [k |-> "L", v |-> v, b |-> definition]
App(function, arg) == [k |-> "A", f |-> function, a |-> arg]

\* no object: a unique_ptr not yet set, a call not yet returned
Null == [k |-> "null"]
\* the process died (a wild read after a bad cast)
Crash == [k |-> "crash"]
\* the call did not return within the stack it was given
Diverge == [k |-> "diverge"]

IsTerm(t) == t.k \in {"V", "L", "A"}

RECURSIVE to_string(_)
VariableToString(t) == t.n
\* Abstraction::to_string without the parentheses
AbstractionToStringBare(t) ==
    <<"\\">> \o to_string(t.v) \o <<".">> \o to_string(t.b)
AbstractionToString(t) ==
    <<"(", "\\">> \o to_string(t.v) \o <<".">> \o to_string(t.b) \o <<")">>
\* Application::to_string without the space
ApplicationToStringUnspaced(t) ==
    <<"[">> \o to_string(t.f) \o to_string(t.a) \o <<"]">>
\* Application::to_string
ApplicationToString(t) ==
    <<"[">> \o to_string(t.f) \o <<" ">> \o to_string(t.a) \o <<"]">>
to_string(t) ==
    CASE t.k = "V" -> VariableToString(t)
      [] t.k = "L" -> AbstractionToString(t)
      [] t.k = "A" -> ApplicationToString(t)

\* Variable::operator==
VariableEq(a, b) == b.n = a.n

\* The copy constructors: a deep copy that dispatches on the dynamic class.
RECURSIVE Copy(_)
VariableCopy(t) == Var(t.n)
AbstractionCopy(t) == Abs(VariableCopy(t.v), Copy(t.b))
ApplicationCopy(t) == App(Copy(t.f), Copy(t.a))
Copy(t) ==
    CASE t.k = "V" -> VariableCopy(t)
      [] t.k = "L" -> AbstractionCopy(t)
      [] t.k = "A" -> ApplicationCopy(t)

RECURSIVE Depth(_)
Depth(t) ==
    CASE t.k = "V" -> 0
      [] t.k = "L" -> 1 + Depth(t.b)
      [] t.k = "A" -> 1 + (IF Depth(t.f) >= Depth(t.a) THEN Depth(t.f) ELSE Depth(t.a))

----------------------------------------------------------------------------
(* substitute: no parameter for the stack, the recursion is structural.    *)

RECURSIVE substitute(_, _, _)

\* Variable::substitute copying the variable passed in place of the term
VariableSubstituteTarget(this, var, term) ==
    IF VariableEq(this, var) THEN VariableCopy(var) ELSE VariableCopy(this)

\* Variable::substitute(variable, term)
VariableSubstitute(this, var, term) ==
    IF VariableEq(this, var) THEN Copy(term) ELSE VariableCopy(this)

\* Abstraction::substitute without the test for its own variable
AbstractionSubstituteUnshadowed(this, var, term) ==
    [AbstractionCopy(this) EXCEPT !.b = substitute(this.b, var, term)]

\* Abstraction::substitute renaming its variable out of the term's way
AbstractionSubstituteRenaming(this, var, term) ==
    IF VariableEq(var, this.v)
    THEN AbstractionCopy(this)
    ELSE Abs(Var(this.v.n \o <<"'">>),
             substitute(substitute(this.b, this.v, Var(this.v.n \o <<"'">>)),
                        var, term))

\* Abstraction::substitute(variable, term)
AbstractionSubstitute(this, var, term) ==
    IF VariableEq(var, this.v)
    THEN AbstractionCopy(this)
    ELSE [AbstractionCopy(this) EXCEPT !.b = substitute(this.b, var, term)]

\* Application::substitute without the assignment of subbed->argument
ApplicationSubstituteFunctionOnly(this, var, term) ==
    [ApplicationCopy(this) EXCEPT !.f = substitute(this.f, var, term)]

\* Application::substitute(variable, term)
ApplicationSubstitute(this, var, term) ==
    [ApplicationCopy(this) EXCEPT !.f = substitute(this.f, var, term),
                                  !.a = substitute(this.a, var, term)]

\* the virtual call
substitute(this, var, term) ==
    CASE this.k = "V" -> VariableSubstitute(this, var, term)
      [] this.k = "L" -> AbstractionSubstitute(this, var, term)
      [] this.k = "A" -> ApplicationSubstitute(this, var, term)

----------------------------------------------------------------------------
(* reduce and apply.  `u` is what the build makes of a static_cast to       *)
(* Application of an object that is none: Crash, or the Application the     *)
(* copy constructor assembles from the bytes it finds.  `n` is the number   *)
(* of nested Application::apply activations the stack still holds; a call   *)
(* that needs more does not return (Diverge).                               *)

RECURSIVE reduce(_, _, _)
RECURSIVE apply(_, _, _, _)

\* Variable::reduce returning a Variable built by the default constructor
VariableReduceDefault(this) == Var(<<>>)

\* Variable::reduce
VariableReduce(this) == VariableCopy(this)

\* Abstraction::reduce that leaves the definition alone
AbstractionReduceWeak(this, u, n) == AbstractionCopy(this)

\* Abstraction::reduce  (r: definition->reduce())
AbstractionReduce(this, u, n) ==
    CHOOSE out \in
        { IF ~IsTerm(r) THEN r
          ELSE [AbstractionCopy(this) EXCEPT !.b = r]
          : r \in {reduce(this.b, u, n)} } : TRUE

\* Application::reduce without the test for a Variable function
ApplicationReduceUntested(this, u, n) == apply(this.f, this.a, u, n)

\* Application::reduce  (r: argument->reduce())
ApplicationReduce(this, u, n) ==
    IF this.f.k = "V"
    THEN CHOOSE out \in
             { IF ~IsTerm(r) THEN r
               ELSE [ApplicationCopy(this) EXCEPT !.a = r]
               : r \in {reduce(this.a, u, n)} } : TRUE
    ELSE apply(this.f, this.a, u, n)

\* the virtual call
reduce(this, u, n) ==
    CASE this.k = "V" -> VariableReduce(this)
      [] this.k = "L" -> AbstractionReduce(this, u, n)
      [] this.k = "A" -> ApplicationReduce(this, u, n)

\* Variable::apply: the reduct r of an Application argument is cast to
\* Application unchecked.
VariableApply(this, arg, u, n) ==
    IF arg.k \in {"V", "L"}
    THEN App(VariableCopy(this), Copy(arg))
    ELSE CHOOSE out \in
             { IF ~IsTerm(r) THEN r
               ELSE IF r.k = "A" THEN App(VariableCopy(this), ApplicationCopy(r))
               ELSE IF u.k = "crash" THEN Crash
               ELSE App(VariableCopy(this), u)
               : r \in {reduce(arg, u, n)} } : TRUE

\* Abstraction::apply skipping the substitution for every Variable argument
AbstractionApplyAnyVariable(this, arg) ==
    IF arg.k = "V"
    THEN Copy(this.b)
    ELSE substitute(this.b, this.v, arg)

\* Abstraction::apply
AbstractionApply(this, arg) ==
    IF to_string(arg) = to_string(this.v)
    THEN Copy(this.b)
    ELSE substitute(this.b, this.v, arg)

\* Application::apply reducing the argument it pairs a stuck head with
ApplicationApplyEager(this, arg, u, n) ==
    IF n = 0 THEN Diverge
    ELSE CHOOSE out \in
             { IF ~IsTerm(r) THEN r
               ELSE IF to_string(r) = to_string(this)
                    THEN App(ApplicationCopy(this), reduce(arg, u, n - 1))
                    ELSE apply(r, arg, u, n - 1)
               : r \in {reduce(this, u, n - 1)} } : TRUE

\* Application::apply without the test for a reduction that changed nothing
ApplicationApplyUnstopped(this, arg, u, n) ==
    IF n = 0 THEN Diverge
    ELSE CHOOSE out \in
             { IF ~IsTerm(r) THEN r ELSE apply(r, arg, u, n - 1)
               : r \in {reduce(this, u, n - 1)} } : TRUE

\* Application::apply  (r: the local `reduced`)
ApplicationApply(this, arg, u, n) ==
    IF n = 0 THEN Diverge
    ELSE CHOOSE out \in
             { IF ~IsTerm(r) THEN r
               ELSE IF to_string(r) = to_string(this)
                    THEN App(ApplicationCopy(this), Copy(arg))
                    ELSE apply(r, arg, u, n - 1)
               : r \in {reduce(this, u, n - 1)} } : TRUE

\* the virtual call
apply(this, arg, u, n) ==
    CASE this.k = "V" -> VariableApply(this, arg, u, n)
      [] this.k = "L" -> AbstractionApply(this, arg)
      [] this.k = "A" -> ApplicationApply(this, arg, u, n)

----------------------------------------------------------------------------
(* The terms the model is run on.                                          *)

x == <<"x">>
y == <<"y">>
Names == {x, y}

RECURSIVE Terms(_)
Terms(d) ==
    IF d = 0 THEN {Var(name) : name \in Names}
    ELSE LET S == Terms(d - 1)
         IN  S \cup {Abs(Var(name), b) : name \in Names, b \in S}
               \cup {App(function, arg) : function \in S, arg \in S}

\* the combinators of the catalogue
I == Abs(Var(x), Var(x))
K == Abs(Var(x), Abs(Var(y), Var(x)))
U == Abs(Var(x), App(Var(x), Var(x)))
OMEGA == App(U, U)
g == <<"g">>
GXX == Abs(Var(x), App(Var(g), App(Var(x), Var(x))))
Y == Abs(Var(g), App(GXX, GXX))

\* \y.[U y], and [U \y.[U y]], which reduce() takes to [UY UY] and back
UY == Abs(Var(y), App(U, Var(y)))
Cycle == App(U, UY)
\* a stuck head applied to a redex
StuckRedex == App(App(Var(x), Var(y)), App(I, Var(y)))
\* a head that reduces to a Variable, applied to a redex that reduces to one
VarOnRedex == App(App(I, Var(x)), App(I, Var(y)))
\* a head that reduces to a Variable, applied to a redex that stays an Application
VarOnApp == App(App(I, Var(x)), App(I, App(Var(y), Var(y))))
\* redexes that reduce to a Variable and to an Abstraction
IY == App(I, Var(y))
KX == App(K, Var(x))
\* a redex under two binders
DeepRedex == Abs(Var(x), Abs(Var(y), App(I, Var(y))))

\* the names of the parameters of the numerals
name_f == <<"f">>
name_n == <<"n">>
name_m == <<"m">>

\* Natural Two: \f.\x.[f [f x]]
TWO == Abs(Var(name_f), Abs(Var(x), App(Var(name_f), App(Var(name_f), Var(x)))))

\* Natural Zero: \f.\x.x
ZERO == Abs(Var(name_f), Abs(Var(x), Var(x)))

\* the arguments given to NAT
MaxNat == 4
MinNat == 0 - 2

\* the loop of NAT: `numeral = (V(f), numeral)` while i < k
RECURSIVE NATLoop(_, _, _)
NATLoop(numeral, i, k) ==
    IF i < k THEN NATLoop(App(Var(name_f), numeral), i + 1, k) ELSE numeral

\* NAT with its loop started at 0
NATFromZero(k) ==
    IF k > 0
    THEN Abs(Var(name_f), Abs(Var(x), NATLoop(App(Var(name_f), Var(x)), 0, k)))
    ELSE ZERO

\* NAT(n)
NAT(k) ==
    IF k > 0
    THEN Abs(Var(name_f), Abs(Var(x), NATLoop(App(Var(name_f), Var(x)), 1, k)))
    ELSE ZERO

\* Natural Successor: \n.\f.\x.[f [[n f] x]]
SUCC ==
    Abs(Var(name_n), Abs(Var(name_f), Abs(Var(x),
        App(Var(name_f), App(App(Var(name_n), Var(name_f)), Var(x))))))

\* Natural Addition: \m.\n.[[m SUCC] n]
ADD ==
    Abs(Var(name_m), Abs(Var(name_n),
        App(App(Var(name_m), SUCC), Var(name_n))))

\* Boolean And: \p.\q.[[p q] p]
name_p == <<"p">>
name_q == <<"q">>
AND ==
    Abs(Var(name_p), Abs(Var(name_q),
        App(App(Var(name_p), Var(name_q)), Var(name_p))))

\* the identity over a name of its own
IdF == Abs(Var(name_f), Var(name_f))

\* ((ADD, TWO), TWO)
AddTwoTwo == App(App(ADD, TWO), TWO)

\* a term whose normal form is [y (\y.[y y])], and whose first contraction
\* puts the free y under the binder \y
CaptureLoop == App(App(Abs(Var(x), Abs(Var(y), App(Var(x), Var(y)))), Var(y)), UY)

\* two redexes nested in the argument of a Variable
TwoSteps == App(Var(x), App(I, IY))

\* names of two characters, and a name that reads as an Application
name_xy == <<"x", "y">>
name_yx == <<"y", "x">>
name_brackets == <<"[", "x", " ", "y", "]">>

Catalogue ==
    {I, K, U, OMEGA, UY, Cycle, StuckRedex, VarOnRedex, VarOnApp, DeepRedex,
     App(Cycle, Var(x)), App(App(K, Var(x)), OMEGA), App(App(K, I), Cycle),
     App(Var(x), VarOnRedex), Abs(Var(y), VarOnApp),
     App(Y, Var(g)), App(GXX, GXX), App(App(GXX, GXX), Var(x)),
     IY, KX, App(Var(x), DeepRedex),
     Var(g), TWO, SUCC, ADD, AddTwoTwo, CaptureLoop, TwoSteps, AND, IdF,
     Var(name_xy), App(Var(name_xy), Var(x)), App(Var(x), Var(name_yx)),
     Abs(Var(name_xy), Var(name_xy)), Var(name_brackets),
     App(Var(x), Var(y))}

StartTerms == Terms(MaxDepth) \cup Catalogue
CallTerms == Terms(OpDepth) \cup Catalogue

\* what a static_cast<const Application&> of a Variable or an Abstraction,
\* copied, can come to
UBOutcomes == {Crash, App(Var(<<>>), Var(<<>>)), App(Var(x), Var(y))}

\* the casts of the evaluation of reduce(t) / apply(t, a) that are undefined
ReduceIsUB(t) == reduce(t, Crash, MaxUnwind).k = "crash"
ApplyIsUB(t, a) == apply(t, a, Crash, MaxUnwind).k = "crash"

----------------------------------------------------------------------------
(* main(): reduced = MAIN.reduce(); while (MAIN != reduced) { new_reduced  *)
(* = reduced->reduce(); if (reduced == new_reduced) break; reduced =       *)
(* new_reduced; }  (comparisons of to_string()).                           *)

CallIdle == /\ op = "main" /\ self = Null /\ argument = Null
            /\ variable = Null /\ result = Null /\ stack = <<>>
            /\ heap = <<>>

Init ==
    /\ MAIN \in StartTerms
    /\ reduced = Null
    /\ pc = "reduce"
    /\ steps = 0
    /\ ub = Null
    /\ CallIdle

\* where main() is after a call of reduce() that gave r
After(r, next) ==
    CASE r.k = "crash" -> "crashed"
      [] r.k = "diverge" -> "hung"
      [] OTHER -> next

\* std::unique_ptr<LambdaTerm> reduced(MAIN.reduce());
MainReduce ==
    /\ pc = "reduce"
    /\ \E u \in UBOutcomes : \E r \in {reduce(MAIN, u, MaxUnwind)} :
             /\ pc' = After(r, "while")
             /\ reduced' = IF IsTerm(r) THEN r ELSE reduced
             /\ ub' = IF ReduceIsUB(MAIN) THEN u ELSE ub
    /\ UNCHANGED <<heap, stack, MAIN, steps, op, self, argument, variable, result>>

\* while (MAIN.to_string() != reduced->to_string())
MainWhile ==
    /\ pc = "while"
    /\ pc' = IF to_string(MAIN) # to_string(reduced) THEN "body" ELSE "done"
    /\ UNCHANGED <<heap, stack, MAIN, reduced, steps, op, self, argument, variable, result, ub>>

\* the body of the loop, left after two iterations whatever reduce gives
MainBodyLimited ==
    /\ pc = "body"
    /\ steps < MaxSteps
    /\ \E u \in UBOutcomes : \E new_reduced \in {reduce(reduced, u, MaxUnwind)} :
             /\ pc' = After(new_reduced,
                        IF to_string(reduced) = to_string(new_reduced) \/ steps >= 2
                        THEN "done" ELSE "while")
             /\ reduced' = IF IsTerm(new_reduced)
                              /\ to_string(reduced) # to_string(new_reduced)
                           THEN new_reduced ELSE reduced
             /\ ub' = IF ReduceIsUB(reduced) THEN u ELSE ub
    /\ steps' = steps + 1
    /\ UNCHANGED <<heap, stack, MAIN, op, self, argument, variable, result>>

\* the body of the loop
MainBody ==
    /\ pc = "body"
    /\ steps < MaxSteps
    /\ \E u \in UBOutcomes : \E new_reduced \in {reduce(reduced, u, MaxUnwind)} :
             /\ pc' = After(new_reduced,
                        IF to_string(reduced) = to_string(new_reduced)
                        THEN "done" ELSE "while")
             /\ reduced' = IF IsTerm(new_reduced)
                              /\ to_string(reduced) # to_string(new_reduced)
                           THEN new_reduced ELSE reduced
             /\ ub' = IF ReduceIsUB(reduced) THEN u ELSE ub
    /\ steps' = steps + 1
    /\ UNCHANGED <<heap, stack, MAIN, op, self, argument, variable, result>>

Next == MainReduce \/ MainWhile \/ MainBody

Spec == Init /\ [][Next]_vars

----------------------------------------------------------------------------
(* Beta-normal forms, by the textbook definitions (used to state claims,   *)
(* not part of the program).                                               *)

\* no Application whose function is an Abstraction, anywhere in the tree
RECURSIVE IsBetaNormal(_)
IsBetaNormal(t) ==
    CASE t.k = "V" -> TRUE
      [] t.k = "L" -> IsBetaNormal(t.b)
      [] t.k = "A" -> t.f.k # "L" /\ IsBetaNormal(t.f) /\ IsBetaNormal(t.a)

RECURSIVE FreeNames(_)
FreeNames(t) ==
    CASE t.k = "V" -> {t.n}
      [] t.k = "L" -> FreeNames(t.b) \ {t.v.n}
      [] t.k = "A" -> FreeNames(t.f) \cup FreeNames(t.a)

RECURSIVE BoundNames(_)
BoundNames(t) ==
    CASE t.k = "V" -> {}
      [] t.k = "L" -> {t.v.n} \cup BoundNames(t.b)
      [] t.k = "A" -> BoundNames(t.f) \cup BoundNames(t.a)

\* the leftmost-outermost redex of t, contracted (t is not normal)
RECURSIVE BetaStep(_)
BetaStep(t) ==
    CASE t.k = "V" -> t
      [] t.k = "L" -> Abs(t.v, BetaStep(t.b))
      [] t.k = "A" ->
           IF t.f.k = "L" THEN substitute(t.f.b, t.f.v, t.a)
           ELSE IF ~IsBetaNormal(t.f) THEN App(BetaStep(t.f), t.a)
           ELSE App(t.f, BetaStep(t.a))

\* that contraction captures no free name of the argument, so that the
\* program's substitute is the substitution of the calculus there
RECURSIVE StepIsHygienic(_)
StepIsHygienic(t) ==
    CASE t.k = "V" -> TRUE
      [] t.k = "L" -> StepIsHygienic(t.b)
      [] t.k = "A" ->
           IF t.f.k = "L" THEN FreeNames(t.a) \cap BoundNames(t.f.b) = {}
           ELSE IF ~IsBetaNormal(t.f) THEN StepIsHygienic(t.f)
           ELSE StepIsHygienic(t.a)

\* normal-order reduction reaches a normal form within n hygienic steps
RECURSIVE NormalizesWithin(_, _)
NormalizesWithin(t, n) ==
    \/ IsBetaNormal(t)
    \/ n > 0 /\ StepIsHygienic(t) /\ NormalizesWithin(BetaStep(t), n - 1)

HasNormalForm(t) == NormalizesWithin(t, MaxBeta)

\* reduce(t) returns a term that renders as t does, no cast being undefined
IsFixpoint(t) ==
    /\ ~ReduceIsUB(t)
    /\ LET r == reduce(t, Crash, MaxUnwind)
       IN  IsTerm(r) /\ to_string(r) = to_string(t)

----------------------------------------------------------------------------
(* Claims about main().                                                    *)

\* C1: whenever main() leaves its loop, the term it reports is a fixpoint
\* of reduce (to_string(reduce(reduced)) = to_string(reduced)); no reduct
\* that merely renders like MAIN stops the loop.
C1_ResultIsFixpoint ==
    (pc = "done" /\ ~ReduceIsUB(reduced)) => IsFixpoint(reduced)

\* C2: for a starting term with a beta-normal form, the term main() reports
\* is beta-normal: no Application of an Abstraction anywhere in it.
C2_ResultIsBetaNormal ==
    (pc = "done" /\ HasNormalForm(MAIN)) => IsBetaNormal(reduced)

----------------------------------------------------------------------------
(* Single calls: one call of reduce, apply or substitute on a receiver and *)
(* arguments drawn from CallTerms.                                         *)

MainIdle == /\ MAIN = Null /\ reduced = Null /\ pc = "call" /\ steps = 0
            /\ stack = <<>>
HeapIdle == heap = <<>>

CallInit ==
    /\ MainIdle
    /\ HeapIdle
    /\ op = "none"
    /\ self \in CallTerms
    /\ argument \in CallTerms
    /\ variable = Null
    /\ result = Null
    /\ ub = Null

\* self.reduce()
CallReduce ==
    /\ op = "none"
    /\ \E u \in UBOutcomes :
         /\ result' = reduce(self, u, MaxUnwind)
         /\ ub' = IF ReduceIsUB(self) THEN u ELSE Null
    /\ op' = "reduce"
    /\ argument' = Null
    /\ UNCHANGED <<heap, stack, MAIN, reduced, pc, steps, self, variable>>

\* self.apply(argument)
CallApply ==
    /\ op = "none"
    /\ \E u \in UBOutcomes :
         /\ result' = apply(self, argument, u, MaxUnwind)
         /\ ub' = IF ApplyIsUB(self, argument) THEN u ELSE Null
    /\ op' = "apply"
    /\ UNCHANGED <<heap, stack, MAIN, reduced, pc, steps, self, argument, variable>>

\* self.substitute(variable, argument)
CallSubstitute ==
    /\ op = "none"
    /\ \E name \in Names :
         /\ variable' = Var(name)
         /\ result' = substitute(self, Var(name), argument)
    /\ op' = "substitute"
    /\ UNCHANGED <<heap, stack, MAIN, reduced, pc, steps, self, argument, ub>>

\* K.apply(self)->apply(argument): no cast is made, K and its result being
\* Abstractions
CallK ==
    /\ op = "none"
    /\ result' = apply(apply(K, self, Crash, MaxUnwind), argument, Crash, MaxUnwind)
    /\ op' = "K"
    /\ UNCHANGED <<heap, stack, MAIN, reduced, pc, steps, self, argument, variable, ub>>

\* self.to_string()
CallToString ==
    /\ op = "none"
    /\ result' = to_string(self)
    /\ op' = "to_string"
    /\ argument' = Null
    /\ UNCHANGED <<heap, stack, MAIN, reduced, pc, steps, self, variable, ub>>

\* self.to_string() == argument.to_string(), the comparison of main(), of
\* Application::apply and of Abstraction::apply
CallCompare ==
    /\ op = "none"
    /\ result' = [k |-> "bool", eq |-> to_string(self) = to_string(argument)]
    /\ op' = "compare"
    /\ UNCHANGED <<heap, stack, MAIN, reduced, pc, steps, self, argument, variable, ub>>

\* self = NAT(i), for an int i
CallNAT ==
    /\ op = "none"
    /\ \E i \in MinNat..MaxNat :
         /\ argument' = [k |-> "int", i |-> i]
         /\ self' = NAT(i)
    /\ op' = "NAT"
    /\ UNCHANGED <<heap, stack, MAIN, reduced, pc, steps, result, variable, ub>>

\* self.reduce(), for the self that NAT returned
CallNATReduce ==
    /\ op = "NAT"
    /\ \E u \in UBOutcomes :
         /\ result' = reduce(self, u, MaxUnwind)
         /\ ub' = IF ReduceIsUB(self) THEN u ELSE Null
    /\ op' = "NAT.reduce"
    /\ UNCHANGED <<heap, stack, MAIN, reduced, pc, steps, self, argument, variable>>

CallNext ==
    \/ CallReduce \/ CallApply \/ CallSubstitute \/ CallK \/ CallToString
    \/ CallCompare \/ CallNAT \/ CallNATReduce

SpecCall == CallInit /\ [][CallNext]_vars

----------------------------------------------------------------------------
(* The recursion of Application::apply, one activation per step: the       *)
(* activation on `self` reduces it and either returns or calls apply on    *)
(* the reduct with the same argument.                                      *)

UnwindInit ==
    /\ MainIdle
    /\ HeapIdle
    /\ op = "apply"
    /\ self \in {t \in StartTerms : t.k = "A"}
    /\ argument \in Terms(0)
    /\ variable = Null
    /\ result = Null
    /\ ub = Null

Unwind ==
    /\ op = "apply"
    /\ \E u \in UBOutcomes : \E r \in {reduce(self, u, MaxUnwind)} :
         \E same \in {IsTerm(r) /\ to_string(r) = to_string(self)} :
         \E out \in {IF ~IsTerm(r) THEN r
                     ELSE IF same THEN App(ApplicationCopy(self), Copy(argument))
                     ELSE apply(r, argument, u, MaxUnwind)} :
             /\ ub' = IF ReduceIsUB(self) \/ (IsTerm(r) /\ ~same /\ r.k # "A"
                                              /\ ApplyIsUB(r, argument))
                      THEN u ELSE ub
             /\ CASE r.k = "crash" ->
                       op' = "crashed" /\ UNCHANGED <<self, result>>
                  [] r.k = "diverge" ->
                       op' = "overflow" /\ UNCHANGED <<self, result>>
                  [] IsTerm(r) /\ ~same /\ r.k = "A" /\ Depth(r) <= MaxGrow ->
                       op' = "apply" /\ self' = r /\ UNCHANGED result
                  [] IsTerm(r) /\ ~same /\ r.k = "A" /\ Depth(r) > MaxGrow ->
                       op' = "unfollowed" /\ UNCHANGED <<self, result>>
                  [] OTHER ->
                       /\ op' = IF out.k = "crash" THEN "crashed" ELSE "returned"
                       /\ result' = out
                       /\ UNCHANGED self
    /\ UNCHANGED <<heap, stack, MAIN, reduced, pc, steps, argument, variable>>

UnwindNext == Unwind

SpecUnwind == UnwindInit /\ [][UnwindNext]_vars /\ WF_vars(UnwindNext)

----------------------------------------------------------------------------
(* Claims about single calls.                                              *)

\* C3: every call of apply(head, argument) terminates: the recursion of
\* Application::apply (reduce the head, apply the reduct to the argument
\* again) reaches a head that is stuck or an Abstraction after finitely
\* many activations.  (A run that is no longer followed, because the head
\* outgrew MaxGrow or the stack MaxUnwind, or that died in a bad cast, is
\* not counted against the claim.)
C3_ApplyTerminates == <>(op # "apply")


\* the outcome of the undefined casts of the call that was made, if any
CallUB == IF ub.k = "null" THEN Crash ELSE ub

\* C4: apply with a Variable head v returns Application(v, reduce(a)) for
\* an Application argument a, whatever the shape of reduce(a), and
\* Application(v, a) for a Variable or an Abstraction a.
C4_VariableApply ==
    (op = "apply" /\ self.k = "V" /\ ~ReduceIsUB(argument)
       /\ IsTerm(reduce(argument, Crash, MaxUnwind)))
    => result = IF argument.k = "A"
                THEN App(self, reduce(argument, Crash, MaxUnwind))
                ELSE App(self, argument)

\* C5: apply with an Abstraction head (parameter p, body b) returns a copy
\* of b when the argument renders as p's name, and substitute(b, p,
\* argument) otherwise; nothing is reduced after that one beta step.
C5_AbstractionApply ==
    (op = "apply" /\ self.k = "L")
    => result = IF to_string(argument) = self.v.n
                THEN self.b
                ELSE substitute(self.b, self.v, argument)

\* C5 witness: a beta step with a substitution whose result still holds a
\* redex, returned as it is.
C5_Witness ==
    /\ op = "apply" /\ self.k = "L"
    /\ to_string(argument) # self.v.n
    /\ result # self.b
    /\ ~IsBetaNormal(result)

\* C6: apply with an Application head h, r = reduce(h): when r renders as h
\* the result is Application(h, argument), both verbatim; otherwise it is
\* apply(r, argument).
C6_ApplicationApply ==
    (op = "apply" /\ self.k = "A" /\ IsTerm(result))
    => \E r \in {reduce(self, CallUB, MaxUnwind)} :
          /\ IsTerm(r)
          /\ to_string(r) = to_string(self) => result = App(self, argument)
          /\ to_string(r) # to_string(self)
                => result = apply(r, argument, CallUB, MaxUnwind)

\* C6 witness: a head that reduces to an Abstraction, which then takes a
\* reducible argument unreduced.
C6_Witness ==
    /\ op = "apply" /\ self.k = "A" /\ IsTerm(result)
    /\ reduce(self, CallUB, MaxUnwind).k = "L"
    /\ ~IsBetaNormal(argument)

\* C6 witness of the other case: a stuck head paired with a reducible
\* argument, returned verbatim.
C6_StuckWitness ==
    /\ op = "apply" /\ self.k = "A" /\ IsTerm(result)
    /\ to_string(reduce(self, CallUB, MaxUnwind)) = to_string(self)
    /\ ~IsBetaNormal(argument)
    /\ result = App(self, argument)

\* C7: reduce of Application(f, a) is Application(f, reduce(a)) when f is a
\* Variable, and apply(f, a) otherwise.
C7_ApplicationReduce ==
    (op = "reduce" /\ self.k = "A" /\ IsTerm(result))
    => result = IF self.f.k = "V"
                THEN App(self.f, reduce(self.a, CallUB, MaxUnwind))
                ELSE apply(self.f, self.a, CallUB, MaxUnwind)

\* C7 witness: a Variable head whose argument made a step.
C7_Witness ==
    /\ op = "reduce" /\ self.k = "A" /\ IsTerm(result)
    /\ self.f.k = "V"
    /\ result.f = self.f
    /\ result.a # self.a

\* C8: reduce of Abstraction(v, body) is Abstraction(v, reduce(body)).
C8_AbstractionReduce ==
    (op = "reduce" /\ self.k = "L" /\ IsTerm(result))
    => result = Abs(self.v, reduce(self.b, CallUB, MaxUnwind))

\* C8 witness: a redex under two binders was contracted.
C8_Witness ==
    /\ op = "reduce" /\ self.k = "L" /\ self.b.k = "L" /\ IsTerm(result)
    /\ result.v = self.v
    /\ result.b.v = self.b.v
    /\ result.b.b # self.b.b

\* C9: substitute on Abstraction(v, body) with a target named as v returns
\* a copy that renders as the original.
C9_SubstituteShadowed ==
    (op = "substitute" /\ self.k = "L" /\ variable.n = self.v.n)
    => /\ result.k = "L"
       /\ to_string(result) = to_string(self)

\* C9 witness: the target occurs in the body and the replacement differs.
C9_Witness ==
    /\ op = "substitute" /\ self.k = "L" /\ variable.n = self.v.n
    /\ variable.n \in FreeNames(self.b)
    /\ to_string(argument) # variable.n

\* C10: substitute on Abstraction(v, body) with a target not named as v
\* returns Abstraction(v, substitute(body, target, replacement)), v never
\* renamed; y for x in \y.x gives (\y.y).
C10_SubstituteUnder ==
    (op = "substitute" /\ self.k = "L" /\ variable.n # self.v.n)
    => /\ result = Abs(self.v, substitute(self.b, variable, argument))
       /\ (self = Abs(Var(y), Var(x)) /\ variable = Var(x) /\ argument = Var(y))
             => to_string(result) = <<"(", "\\", "y", ".", "y", ")">>

\* C10 witness: the replacement's free y was captured by the binder.
C10_Witness ==
    /\ op = "substitute"
    /\ self = Abs(Var(y), Var(x)) /\ variable = Var(x) /\ argument = Var(y)
    /\ to_string(result) = <<"(", "\\", "y", ".", "y", ")">>

\* C11: substitute on a Variable w returns a copy of the replacement, of
\* the replacement's shape and rendering, when w is named as the target,
\* and a copy of w otherwise.
C11_VariableSubstitute ==
    (op = "substitute" /\ self.k = "V")
    => IF self.n = variable.n
       THEN /\ result = argument
            /\ result.k = argument.k
            /\ to_string(result) = to_string(argument)
       ELSE /\ result = self
            /\ to_string(result) = self.n

\* C11 witness: an Abstraction took the place of the Variable.
C11_Witness ==
    /\ op = "substitute" /\ self.k = "V" /\ self.n = variable.n
    /\ argument.k = "L"
    /\ result.k = "L"

\* C11 witnesses of the other shapes of the replacement, and of a Variable
\* that is not the target.
C11_ApplicationWitness ==
    /\ op = "substitute" /\ self.k = "V" /\ self.n = variable.n
    /\ argument.k = "A" /\ result.k = "A"
C11_VariableWitness ==
    /\ op = "substitute" /\ self.k = "V" /\ self.n = variable.n
    /\ argument.k = "V" /\ argument.n # self.n /\ result.n = argument.n
C11_OtherWitness ==
    /\ op = "substitute" /\ self.k = "V" /\ self.n # variable.n
    /\ argument.k = "A" /\ result = self

\* C12: substitute on Application(f, a) returns Application(substitute(f,
\* target, r), substitute(a, target, r)), an Application in every case.
C12_ApplicationSubstitute ==
    (op = "substitute" /\ self.k = "A")
    => /\ result.k = "A"
       /\ result.f = substitute(self.f, variable, argument)
       /\ result.a = substitute(self.a, variable, argument)

\* C12 witness: the target was replaced in both subtrees.
C12_Witness ==
    /\ op = "substitute" /\ self.k = "A"
    /\ variable.n \in FreeNames(self.f) /\ variable.n \in FreeNames(self.a)
    /\ to_string(argument) # variable.n
    /\ result.f # self.f /\ result.a # self.a

----------------------------------------------------------------------------
(* main() run to its end: the loop is followed for as long as it runs, so  *)
(* that a run that never leaves the loop is a behaviour of the model.  A   *)
(* reduct deeper than MaxGrow is not followed.                             *)

\* the body of the loop without its break
MainBodyNoBreak ==
    /\ pc = "body"
    /\ \E u \in UBOutcomes : \E new_reduced \in {reduce(reduced, u, MaxUnwind)} :
             /\ pc' = After(new_reduced,
                        IF IsTerm(new_reduced) /\ Depth(new_reduced) > MaxGrow
                        THEN "unfollowed" ELSE "while")
             /\ reduced' = IF IsTerm(new_reduced) /\ Depth(new_reduced) <= MaxGrow
                           THEN new_reduced ELSE reduced
             /\ ub' = IF ReduceIsUB(reduced) THEN u ELSE ub
    /\ UNCHANGED <<heap, stack, MAIN, steps, op, self, argument, variable, result>>

\* the body of the loop
MainBodyFollowed ==
    /\ pc = "body"
    /\ \E u \in UBOutcomes : \E new_reduced \in {reduce(reduced, u, MaxUnwind)} :
         \E same \in {IsTerm(new_reduced)
                      /\ to_string(reduced) = to_string(new_reduced)} :
             /\ pc' = After(new_reduced,
                        IF same THEN "done"
                        ELSE IF Depth(new_reduced) > MaxGrow THEN "unfollowed"
                        ELSE "while")
             /\ reduced' = IF IsTerm(new_reduced) /\ ~same
                              /\ Depth(new_reduced) <= MaxGrow
                           THEN new_reduced ELSE reduced
             /\ ub' = IF ReduceIsUB(reduced) THEN u ELSE ub
    /\ UNCHANGED <<heap, stack, MAIN, steps, op, self, argument, variable, result>>

RunNext == MainReduce \/ MainWhile \/ MainBodyFollowed

\* main() is one thread: it takes its next step whenever it has one
SpecRun == Init /\ [][RunNext]_vars /\ WF_vars(RunNext)

----------------------------------------------------------------------------
(* Beta reduction of the calculus, with the renaming of bound variables    *)
(* that the program does not do (used to state claims, not part of the     *)
(* program).                                                               *)

\* a name made of `name` and primes that is not in `used`
RECURSIVE Fresh(_, _)
Fresh(name, used) ==
    IF name \notin used THEN name ELSE Fresh(name \o <<"'">>, used)

\* t with s for the free occurrences of the name nm, no free name of s
\* coming under a binder of t
RECURSIVE CalculusSubstitute(_, _, _)
CalculusSubstitute(t, nm, s) ==
    CASE t.k = "V" -> IF t.n = nm THEN s ELSE t
      [] t.k = "A" -> App(CalculusSubstitute(t.f, nm, s),
                          CalculusSubstitute(t.a, nm, s))
      [] t.k = "L" ->
           IF t.v.n = nm THEN t
           ELSE IF t.v.n \in FreeNames(s) /\ nm \in FreeNames(t.b)
           THEN LET w == Fresh(t.v.n, FreeNames(s) \cup FreeNames(t.b)
                                      \cup BoundNames(t.b) \cup {nm})
                IN  Abs(Var(w),
                        CalculusSubstitute(
                            CalculusSubstitute(t.b, t.v.n, Var(w)), nm, s))
           ELSE Abs(t.v, CalculusSubstitute(t.b, nm, s))

\* the leftmost-outermost redex of t, contracted (t is not normal)
RECURSIVE CalculusStep(_)
CalculusStep(t) ==
    CASE t.k = "V" -> t
      [] t.k = "L" -> Abs(t.v, CalculusStep(t.b))
      [] t.k = "A" ->
           IF t.f.k = "L" THEN CalculusSubstitute(t.f.b, t.f.v.n, t.a)
           ELSE IF ~IsBetaNormal(t.f) THEN App(CalculusStep(t.f), t.a)
           ELSE App(t.f, CalculusStep(t.a))

RECURSIVE CalculusNormalizesWithin(_, _)
CalculusNormalizesWithin(t, k) ==
    \/ IsBetaNormal(t)
    \/ k > 0 /\ CalculusNormalizesWithin(CalculusStep(t), k - 1)

\* t has a beta-normal form (found within MaxBeta steps)
HasBetaNormalForm(t) == CalculusNormalizesWithin(t, MaxBeta)

\* main() has come to its end
Stopped == pc \in {"done", "crashed"}

----------------------------------------------------------------------------
(* Claims about particular terms and about to_string.                      *)

\* the rendering of OMEGA
OmegaString ==
    <<"[", "(", "\\", "x", ".", "[", "x", " ", "x", "]", ")", " ",
      "(", "\\", "x", ".", "[", "x", " ", "x", "]", ")", "]">>

\* C14: reduce(OMEGA) renders as OMEGA, so main() started on OMEGA calls
\* reduce once, never enters the body of its loop, and reports a term that
\* renders as OMEGA.
C14_Omega ==
    MAIN = OMEGA
    => /\ pc \in {"reduce", "while", "done"}
       /\ steps = 0
       /\ pc \in {"while", "done"} => to_string(reduced) = OmegaString
       /\ to_string(OMEGA) = OmegaString

\* C14 witness: main() is through with OMEGA.
C14_Witness ==
    /\ MAIN = OMEGA /\ pc = "done" /\ steps = 0
    /\ to_string(reduced) = OmegaString

Closed(t) == FreeNames(t) = {}

\* C15: for closed terms A and B, K.apply(A)->apply(B) is A (as a tree,
\* hence in its rendering, and main() started on it runs as on A),
\* whatever the bound names of A and B.
C15_KFirst ==
    (op = "K" /\ Closed(self) /\ Closed(argument))
    => /\ IsTerm(result)
       /\ to_string(result) = to_string(self)
       /\ result = self

\* C15 witness: A and B closed, with bound names that collide neither with
\* one another nor with those of K.
C15_Witness ==
    /\ op = "K" /\ Closed(self) /\ Closed(argument)
    /\ BoundNames(self) # {} /\ BoundNames(argument) # {}
    /\ BoundNames(self) \cap BoundNames(argument) = {}
    /\ (BoundNames(self) \cup BoundNames(argument)) \cap BoundNames(K) = {}
    /\ to_string(result) = to_string(self)

\* C15 witness with a binder named as K's second parameter inside A.
C15_ShadowWitness ==
    /\ op = "K" /\ Closed(self) /\ Closed(argument)
    /\ y \in BoundNames(self)
    /\ to_string(argument) # to_string(self)
    /\ to_string(result) = to_string(self)

\* the rendering of the Church numeral four
FourString ==
    <<"(", "\\", "f", ".", "(", "\\", "x", ".",
      "[", "f", " ", "[", "f", " ", "[", "f", " ", "[", "f", " ", "x",
      "]", "]", "]", "]", ")", ")">>

\* C16: main() started on ((ADD, TWO), TWO) stops, within the stack and
\* the iterations the model follows, and reports a term that renders as
\* (\f.(\x.[f [f [f [f x]]]])).
C16_AddTwoTwo ==
    MAIN = AddTwoTwo
    => /\ pc \notin {"crashed", "hung"}
       /\ pc = "body" => steps < MaxSteps
       /\ pc = "done" => to_string(reduced) = FourString

\* C16 witness: main() is through with ((ADD, TWO), TWO), after several
\* iterations of its loop.
C16_Witness ==
    /\ MAIN = AddTwoTwo /\ pc = "done" /\ steps > 1
    /\ to_string(reduced) = FourString

\* the number of characters the rendering of t is said to have
RECURSIVE RenderLen(_)
RenderLen(t) ==
    CASE t.k = "V" -> Len(t.n)
      [] t.k = "L" -> 4 + Len(t.v.n) + RenderLen(t.b)
      [] t.k = "A" -> 3 + RenderLen(t.f) + RenderLen(t.a)

\* C17: to_string of a Variable is its name; of Abstraction(v, body) it is
\* "(\" then v's name then "." then to_string(body) then ")"; of
\* Application(f, a) it is "[" then to_string(f) then one space then
\* to_string(a) then "]"; and nothing else is added at any level.
C17_Render ==
    op = "to_string"
    => /\ self.k = "V" => result = self.n
       /\ self.k = "L" =>
             result = <<"(", "\\">> \o self.v.n \o <<".">>
                          \o to_string(self.b) \o <<")">>
       /\ self.k = "A" =>
             result = <<"[">> \o to_string(self.f) \o <<" ">>
                          \o to_string(self.a) \o <<"]">>
       /\ Len(result) = RenderLen(self)

\* C17 witness: an Abstraction over an Application was rendered.
C17_Witness ==
    /\ op = "to_string" /\ self.k = "L" /\ self.b.k = "A"
    /\ result[1] = "(" /\ result[2] = "\\" /\ result[Len(result)] = ")"

\* C17 witness: K rendered as (\x.(\y.x)).
C17_KWitness ==
    /\ op = "to_string" /\ self = K
    /\ result = <<"(", "\\", "x", ".", "(", "\\", "y", ".", "x", ")", ")">>

\* C18: I.apply(A) renders as A for every term A: as y for the Variable y,
\* and as x for the Variable x, for which nothing is substituted.
C18_Identity ==
    (op = "apply" /\ self = I)
    => /\ IsTerm(result)
       /\ to_string(result) = to_string(argument)
       /\ argument = Var(y) => to_string(result) = <<"y">>
       /\ argument = Var(x) => to_string(result) = <<"x">>

\* C18 witness: the identity applied to the Variable y.
C18_Witness ==
    /\ op = "apply" /\ self = I /\ argument = Var(y)
    /\ to_string(result) = <<"y">>

\* C18 witnesses: the argument named as the parameter, and an Application
\* holding a redex, returned unreduced.
C18_ShortcutWitness ==
    /\ op = "apply" /\ self = I /\ argument = Var(x)
    /\ to_string(result) = <<"x">>
C18_RedexWitness ==
    /\ op = "apply" /\ self = I /\ argument.k = "A" /\ ~IsBetaNormal(argument)
    /\ result = argument

\* C19: reduce of a Variable named n is a Variable that renders as n.
C19_VariableReduce ==
    (op = "reduce" /\ self.k = "V")
    => /\ result.k = "V"
       /\ to_string(result) = self.n
       /\ ub = Null

\* C19 witness: reduce returned the Variable g.
C19_Witness ==
    /\ op = "reduce" /\ self = Var(g)
    /\ result.k = "V" /\ to_string(result) = g

C20_StableAtFixpoint ==
    (op = "reduce" /\ IsTerm(result) /\ to_string(result) = to_string(self))
    => /\ result = self
       /\ ~ReduceIsUB(self)
       /\ \A u \in UBOutcomes :
              to_string(reduce(result, u, MaxUnwind)) = to_string(self)

----------------------------------------------------------------------------
(* The recursion of substitute, one call per step: `stack` holds the terms *)
(* on which substitute is still to be called (with the same variable and   *)
(* term), the next one first; `steps` counts the calls made.               *)

RECURSIVE SubTerms(_)
SubTerms(t) ==
    CASE t.k = "V" -> {t}
      [] t.k = "L" -> {t} \cup SubTerms(t.b)
      [] t.k = "A" -> {t} \cup SubTerms(t.f) \cup SubTerms(t.a)

\* the nodes of t
RECURSIVE Size(_)
Size(t) ==
    CASE t.k = "V" -> 1
      [] t.k = "L" -> 1 + Size(t.b)
      [] t.k = "A" -> 1 + Size(t.f) + Size(t.a)

\* Variable::substitute going on into the term it puts in
VariableSubstituteCallsTerm(this, var, term) ==
    IF VariableEq(this, var) THEN <<term>> ELSE <<>>

\* the substitute calls that Variable::substitute makes: none (the term is
\* copied by its copy constructor)
VariableSubstituteCalls(this, var, term) == <<>>

\* the substitute calls that Abstraction::substitute makes
AbstractionSubstituteCalls(this, var, term) ==
    IF VariableEq(var, this.v) THEN <<>> ELSE <<this.b>>

\* the substitute calls that Application::substitute makes
ApplicationSubstituteCalls(this, var, term) == <<this.f, this.a>>

SubstituteCalls(this, var, term) ==
    CASE this.k = "V" -> VariableSubstituteCalls(this, var, term)
      [] this.k = "L" -> AbstractionSubstituteCalls(this, var, term)
      [] this.k = "A" -> ApplicationSubstituteCalls(this, var, term)

\* the terms substituted for a Variable
Replacements == Terms(0) \cup {I, App(Var(x), Var(y)), Abs(Var(y), Var(x))}

SubstituteInit ==
    /\ MainIdle
    /\ HeapIdle
    /\ op = "substituting"
    /\ self \in CallTerms
    /\ argument \in Replacements
    /\ variable \in {Var(name) : name \in Names}
    /\ result = Null
    /\ ub = Null

\* the first call, on self
SubstituteEnter ==
    /\ op = "substituting" /\ steps = 0
    /\ stack' = SubstituteCalls(self, variable, argument)
    /\ steps' = 1
    /\ UNCHANGED <<heap, MAIN, reduced, pc, op, self, argument, variable, result, ub>>

\* the next call, on a term that an earlier call passed on
SubstituteCall ==
    /\ op = "substituting" /\ steps > 0 /\ stack # <<>>
    /\ IF steps < MaxCalls
       THEN /\ stack' = SubstituteCalls(Head(stack), variable, argument)
                            \o Tail(stack)
            /\ steps' = steps + 1
            /\ op' = op
       ELSE /\ op' = "unfollowed"
            /\ UNCHANGED <<stack, steps>>
    /\ UNCHANGED <<heap, MAIN, reduced, pc, self, argument, variable, result, ub>>

\* the last call has returned
SubstituteReturn ==
    /\ op = "substituting" /\ steps > 0 /\ stack = <<>>
    /\ result' = substitute(self, variable, argument)
    /\ op' = "substituted"
    /\ UNCHANGED <<heap, stack, MAIN, reduced, pc, steps, self, argument, variable, ub>>

SubstituteNext == SubstituteEnter \/ SubstituteCall \/ SubstituteReturn

\* a call that is made returns or makes its calls
SpecSubstitute ==
    SubstituteInit /\ [][SubstituteNext]_vars /\ WF_vars(SubstituteNext)

\* the nodes of the terms still to be called on
RECURSIVE Pending(_)
Pending(seq) == IF seq = <<>> THEN 0 ELSE Size(Head(seq)) + Pending(Tail(seq))

\* C21: a substitution returns, with a term, after at most one call per
\* node of the receiver: every call is on a subterm of the receiver that
\* is a strict subterm of its caller's, none on the replacement or on a
\* result.
C21_SubstituteTerminates ==
    /\ [](/\ \A i \in 1..Len(stack) : stack[i] \in SubTerms(self)
          /\ steps + Pending(stack) <= Size(self)
          /\ op # "unfollowed")
    /\ <>(op = "substituted" /\ IsTerm(result))

\* C21 witness: a substitution that went under a binder and into both
\* sides of an Application has returned an Application in which the
\* replacement, itself holding the target, has taken a place.
C21_Witness ==
    /\ op = "substituted" /\ result.k = "A" /\ self.k = "A"
    /\ steps > 3
    /\ variable.n \in FreeNames(self)
    /\ variable.n \in FreeNames(argument) /\ argument.k # "V"
    /\ result # self

----------------------------------------------------------------------------
(* The same methods on objects: `heap` is the sequence of the objects      *)
(* allocated so far, an address is an index into it, and a unique_ptr is   *)
(* an address.  An Abstraction holds its Variable by value and the address *)
(* of its definition; an Application holds two addresses.  A method        *)
(* returns [h |-> the heap after the call, r |-> the address returned];    *)
(* r is NoReturn when the process died and NoStack when the call did not   *)
(* return.  Objects are never taken off the heap, so that a destroyed      *)
(* object stays as it was when it was destroyed.                           *)

NoReturn == 0
NoStack == 0 - 1

\* std::make_unique of one object
Alloc(h, node) == [h |-> Append(h, node), r |-> Len(h) + 1]

\* the term at an address
RECURSIVE HeapRead(_, _)
HeapRead(h, a) ==
    CASE h[a].k = "V" -> Var(h[a].n)
      [] h[a].k = "L" -> Abs(h[a].v, HeapRead(h, h[a].b))
      [] h[a].k = "A" -> App(HeapRead(h, h[a].f), HeapRead(h, h[a].a))

\* the addresses of the objects of the term at an address
RECURSIVE HeapReach(_, _)
HeapReach(h, a) ==
    CASE h[a].k = "V" -> {a}
      [] h[a].k = "L" -> {a} \cup HeapReach(h, h[a].b)
      [] h[a].k = "A" -> {a} \cup HeapReach(h, h[a].f) \cup HeapReach(h, h[a].a)

\* the objects a term is made of, constructed bottom up
RECURSIVE Build(_, _)
Build(h, t) ==
    CASE t.k = "V" -> Alloc(h, t)
      [] t.k = "L" ->
           CHOOSE out \in
               { Alloc(b.h, [k |-> "L", v |-> t.v, b |-> b.r])
                 : b \in {Build(h, t.b)} } : TRUE
      [] t.k = "A" ->
           CHOOSE out \in UNION
               { { Alloc(ca.h, [k |-> "A", f |-> cf.r, a |-> ca.r])
                   : ca \in {Build(cf.h, t.a)} }
                 : cf \in {Build(h, t.f)} } : TRUE

\* the copy constructors (operator=): every object of the copy is new
RECURSIVE HeapCopy(_, _)
HeapVariableCopy(h, a) == Alloc(h, h[a])
HeapAbstractionCopy(h, a) ==
    CHOOSE out \in
        { Alloc(b.h, [k |-> "L", v |-> h[a].v, b |-> b.r])
          : b \in {HeapCopy(h, h[a].b)} } : TRUE
HeapApplicationCopy(h, a) ==
    CHOOSE out \in UNION
        { { Alloc(ca.h, [k |-> "A", f |-> cf.r, a |-> ca.r])
            : ca \in {HeapCopy(cf.h, h[a].a)} }
          : cf \in {HeapCopy(h, h[a].f)} } : TRUE
HeapCopy(h, a) ==
    CASE h[a].k = "V" -> HeapVariableCopy(h, a)
      [] h[a].k = "L" -> HeapAbstractionCopy(h, a)
      [] h[a].k = "A" -> HeapApplicationCopy(h, a)

\* Application(function, argument): both are copied
HeapApplication(h, function, arg) ==
    CHOOSE out \in UNION
        { { Alloc(ca.h, [k |-> "A", f |-> cf.r, a |-> ca.r])
            : ca \in {HeapCopy(cf.h, arg)} }
          : cf \in {HeapCopy(h, function)} } : TRUE

RECURSIVE HeapSubstitute(_, _, _, _)

\* Variable::substitute handing out the term it was passed
HeapVariableSubstituteShared(h, this, var, term) ==
    IF VariableEq(h[this], var) THEN [h |-> h, r |-> term]
    ELSE HeapVariableCopy(h, this)

\* Variable::substitute
HeapVariableSubstitute(h, this, var, term) ==
    IF VariableEq(h[this], var) THEN HeapCopy(h, term)
    ELSE HeapVariableCopy(h, this)

\* Abstraction::substitute  (subbed->definition = definition->substitute())
HeapAbstractionSubstitute(h, this, var, term) ==
    IF VariableEq(var, h[this].v)
    THEN HeapAbstractionCopy(h, this)
    ELSE CHOOSE out \in UNION
             { { [h |-> [s.h EXCEPT ![subbed.r].b = s.r], r |-> subbed.r]
                 : s \in {HeapSubstitute(subbed.h, h[this].b, var, term)} }
               : subbed \in {HeapAbstractionCopy(h, this)} } : TRUE

\* Application::substitute
HeapApplicationSubstitute(h, this, var, term) ==
    CHOOSE out \in UNION UNION
        { { { [h |-> [sa.h EXCEPT ![subbed.r].f = sf.r, ![subbed.r].a = sa.r],
               r |-> subbed.r]
              : sa \in {HeapSubstitute(sf.h, h[this].a, var, term)} }
            : sf \in {HeapSubstitute(subbed.h, h[this].f, var, term)} }
          : subbed \in {HeapApplicationCopy(h, this)} } : TRUE

HeapSubstitute(h, this, var, term) ==
    CASE h[this].k = "V" -> HeapVariableSubstitute(h, this, var, term)
      [] h[this].k = "L" -> HeapAbstractionSubstitute(h, this, var, term)
      [] h[this].k = "A" -> HeapApplicationSubstitute(h, this, var, term)

RECURSIVE HeapReduce(_, _, _, _)
RECURSIVE HeapApply(_, _, _, _, _)

\* Variable::reduce
HeapVariableReduce(h, this) == HeapVariableCopy(h, this)

\* Abstraction::reduce  (reduced->definition = definition->reduce())
HeapAbstractionReduce(h, this, u, n) ==
    CHOOSE out \in UNION
        { { IF r.r <= 0 THEN r
            ELSE [h |-> [r.h EXCEPT ![c.r].b = r.r], r |-> c.r]
            : r \in {HeapReduce(c.h, h[this].b, u, n)} }
          : c \in {HeapAbstractionCopy(h, this)} } : TRUE

\* Application::reduce  (reduced->argument = argument->reduce())
HeapApplicationReduce(h, this, u, n) ==
    IF h[h[this].f].k = "V"
    THEN CHOOSE out \in UNION
             { { IF r.r <= 0 THEN r
                 ELSE [h |-> [r.h EXCEPT ![c.r].a = r.r], r |-> c.r]
                 : r \in {HeapReduce(c.h, h[this].a, u, n)} }
               : c \in {HeapApplicationCopy(h, this)} } : TRUE
    ELSE HeapApply(h, h[this].f, h[this].a, u, n)

HeapReduce(h, this, u, n) ==
    CASE h[this].k = "V" -> HeapVariableReduce(h, this)
      [] h[this].k = "L" -> HeapAbstractionReduce(h, this, u, n)
      [] h[this].k = "A" -> HeapApplicationReduce(h, this, u, n)

\* Variable::apply: what the cast of a reduct that is no Application is
\* copied to is u, in objects of its own
HeapVariableApply(h, this, arg, u, n) ==
    IF h[arg].k \in {"V", "L"}
    THEN HeapApplication(h, this, arg)
    ELSE CHOOSE out \in
             { IF r.r <= 0 THEN r
               ELSE IF r.h[r.r].k = "A" THEN HeapApplication(r.h, this, r.r)
               ELSE IF u.k = "crash" THEN [h |-> r.h, r |-> NoReturn]
               ELSE CHOOSE o2 \in UNION
                        { { Alloc(ca.h, [k |-> "A", f |-> cf.r, a |-> ca.r])
                            : ca \in {Build(cf.h, u)} }
                          : cf \in {HeapCopy(r.h, this)} } : TRUE
               : r \in {HeapReduce(h, arg, u, n)} } : TRUE

\* Abstraction::apply
HeapAbstractionApply(h, this, arg) ==
    IF to_string(HeapRead(h, arg)) = to_string(h[this].v)
    THEN HeapCopy(h, h[this].b)
    ELSE HeapSubstitute(h, h[this].b, h[this].v, arg)

\* Application::apply
HeapApplicationApply(h, this, arg, u, n) ==
    IF n = 0 THEN [h |-> h, r |-> NoStack]
    ELSE CHOOSE out \in
             { IF r.r <= 0 THEN r
               ELSE IF to_string(HeapRead(r.h, r.r)) = to_string(HeapRead(h, this))
                    THEN HeapApplication(r.h, this, arg)
                    ELSE HeapApply(r.h, r.r, arg, u, n - 1)
               : r \in {HeapReduce(h, this, u, n - 1)} } : TRUE

HeapApply(h, this, arg, u, n) ==
    CASE h[this].k = "V" -> HeapVariableApply(h, this, arg, u, n)
      [] h[this].k = "L" -> HeapAbstractionApply(h, this, arg)
      [] h[this].k = "A" -> HeapApplicationApply(h, this, arg, u, n)

\* the arguments and replacements of the calls on objects
HeapArguments == Terms(0) \cup {I, IY, UY, App(Var(x), Var(y))}

\* where the objects of self and of argument are
SelfRoot == Size(self)
ArgumentRoot == Size(self) + Size(argument)

HeapInit ==
    /\ MainIdle
    /\ op = "none"
    /\ self \in CallTerms
    /\ argument \in HeapArguments
    /\ heap = Build(Build(<<>>, self).h, argument).h
    /\ variable = Null
    /\ result = Null
    /\ ub = Null

\* what the caller holds after a call
Returned(out) ==
    CASE out.r = NoReturn -> Crash
      [] out.r = NoStack -> Diverge
      [] OTHER -> [k |-> "node", r |-> out.r]

\* the object the next reduce is called on: self, or what the last call
\* returned
Current == IF op = "none" THEN SelfRoot ELSE result.r

\* reduce(), on self or on the result of the call before (as main() does)
HeapCallReduce ==
    /\ op = "none" \/ result.k = "node"
    /\ steps < MaxChain
    /\ \E u \in UBOutcomes :
         \E out \in {HeapReduce(heap, Current, u, MaxUnwind)} :
             /\ heap' = out.h
             /\ result' = Returned(out)
             /\ ub' = IF ReduceIsUB(HeapRead(heap, Current)) THEN u ELSE Null
    /\ op' = "reduce"
    /\ steps' = steps + 1
    /\ UNCHANGED <<stack, MAIN, reduced, pc, self, argument, variable>>

\* self.apply(argument)
HeapCallApply ==
    /\ op = "none"
    /\ \E u \in UBOutcomes :
         \E out \in {HeapApply(heap, SelfRoot, ArgumentRoot, u, MaxUnwind)} :
             /\ heap' = out.h
             /\ result' = Returned(out)
             /\ ub' = IF ApplyIsUB(self, argument) THEN u ELSE Null
    /\ op' = "apply"
    /\ steps' = steps + 1
    /\ UNCHANGED <<stack, MAIN, reduced, pc, self, argument, variable>>

\* self.substitute(variable, argument)
HeapCallSubstitute ==
    /\ op = "none"
    /\ \E name \in Names :
         \E out \in {HeapSubstitute(heap, SelfRoot, Var(name), ArgumentRoot)} :
             /\ variable' = Var(name)
             /\ heap' = out.h
             /\ result' = Returned(out)
    /\ op' = "substitute"
    /\ steps' = steps + 1
    /\ UNCHANGED <<stack, MAIN, reduced, pc, self, argument, ub>>

HeapNext == HeapCallReduce \/ HeapCallApply \/ HeapCallSubstitute

SpecHeap == HeapInit /\ [][HeapNext]_vars

\* the term a first call returned is the term the method on terms returns
HeapAgrees ==
    (steps = 1 /\ result.k = "node")
    => HeapRead(heap, result.r) =
          CASE op = "reduce" -> reduce(self, CallUB, MaxUnwind)
            [] op = "apply" -> apply(self, argument, CallUB, MaxUnwind)
            [] op = "substitute" -> substitute(self, variable, argument)

\* C22: no call of substitute, apply or reduce, the first or one made on
\* the result of another, changes an object that was there before it, so
\* every term given to it or returned earlier renders as it did; and what
\* it returns is a tree of objects that are all new.
C22_Pure ==
    [][/\ Len(heap') >= Len(heap)
       /\ \A i \in 1..Len(heap) : heap'[i] = heap[i]
       /\ to_string(HeapRead(heap', SelfRoot)) = to_string(self)
       /\ to_string(HeapRead(heap', ArgumentRoot)) = to_string(argument)
       /\ result'.k = "node" =>
             /\ HeapReach(heap', result'.r) \cap (1..Len(heap)) = {}
             /\ Cardinality(HeapReach(heap', result'.r))
                   = Size(HeapRead(heap', result'.r))]_vars

\* C22 witness: a substitution put an Abstraction or an Application in the
\* place of the target, the receiver and the replacement being as before.
C22_Witness ==
    /\ op = "substitute" /\ result.k = "node"
    /\ variable.n \in FreeNames(self) /\ argument.k # "V"
    /\ HeapRead(heap, result.r) # self
    /\ HeapRead(heap, SelfRoot) = self
    /\ HeapRead(heap, ArgumentRoot) = argument

\* C22 witness: calls of reduce made one on the result of the other, each
\* changing the term.
C22_ChainWitness ==
    /\ op = "reduce" /\ steps = MaxChain /\ result.k = "node"
    /\ HeapRead(heap, result.r) # self
    /\ to_string(HeapRead(heap, result.r))
          # to_string(reduce(self, Crash, MaxUnwind))
    /\ HeapRead(heap, SelfRoot) = self

----------------------------------------------------------------------------
(* Claims about the casts, the loop of main() and normal terms.            *)

\* C23: in no call of reduce that main() makes, on any starting term, is
\* an object cast to a class it is not of: the reduct that Variable::apply
\* casts to Application is an Application.
C23_CastsAreSound ==
    /\ ub.k = "null"
    /\ pc # "crashed"

\* X = \x.[g [x x]] applied to itself, under k applications of g
RECURSIVE Tower(_)
Tower(k) == IF k = 0 THEN App(GXX, GXX) ELSE App(Var(g), Tower(k - 1))

\* C24: started on (Y, g), main() never leaves its loop: after k
\* iterations the reduct is [X X] under k applications of g, which renders
\* as neither its predecessor nor MAIN, and no bound of main() ends the
\* loop.
C24_Unbounded ==
    MAIN = App(Y, Var(g))
    => /\ pc \in {"reduce", "while", "body"}
       /\ pc # "reduce" =>
             /\ reduced = Tower(steps)
             /\ to_string(reduced) # to_string(MAIN)
             /\ steps > 0 =>
                   to_string(reduced) # to_string(Tower(steps - 1))

\* C24 witness: main() is in its loop after three iterations.
C24_Witness ==
    /\ MAIN = App(Y, Var(g)) /\ pc = "body" /\ steps = 3
    /\ to_string(reduced) = to_string(
          App(Var(g), App(Var(g), App(Var(g), App(GXX, GXX)))))

\* C25: a beta-normal term is a fixpoint of reduce: main() started on it
\* calls reduce once, does not enter its loop, and reports the term as it
\* was.
C25_NormalIsFixpoint ==
    IsBetaNormal(MAIN)
    => /\ pc \in {"reduce", "while", "done"}
       /\ steps = 0
       /\ ub.k = "null"
       /\ pc # "reduce" =>
             /\ reduced = MAIN
             /\ to_string(reduced) = to_string(MAIN)

\* C25 witness: main() is through with a normal Application whose function
\* is an Application.
C25_Witness ==
    /\ IsBetaNormal(MAIN) /\ pc = "done"
    /\ MAIN.k = "A" /\ MAIN.f.k = "A"
    /\ to_string(reduced) = to_string(MAIN)

C26_NoNewFreeNamesSound ==
    (op = "reduce" /\ IsTerm(result) /\ ~ReduceIsUB(self))
    => FreeNames(result) \subseteq FreeNames(self)

----------------------------------------------------------------------------
(* The methods of lambda.cpp, the other draft: as those of lambda.hpp but  *)
(* for Abstraction::apply, which substitutes whatever the argument (its    *)
(* substitute methods are those of lambda.hpp, line for line).             *)

RECURSIVE CppReduce(_, _, _)
RECURSIVE CppApply(_, _, _, _)

CppVariableReduce(this) == VariableCopy(this)

CppAbstractionReduce(this, u, n) ==
    CHOOSE out \in
        { IF ~IsTerm(r) THEN r
          ELSE [AbstractionCopy(this) EXCEPT !.b = r]
          : r \in {CppReduce(this.b, u, n)} } : TRUE

CppApplicationReduce(this, u, n) ==
    IF this.f.k = "V"
    THEN CHOOSE out \in
             { IF ~IsTerm(r) THEN r
               ELSE [ApplicationCopy(this) EXCEPT !.a = r]
               : r \in {CppReduce(this.a, u, n)} } : TRUE
    ELSE CppApply(this.f, this.a, u, n)

CppReduce(this, u, n) ==
    CASE this.k = "V" -> CppVariableReduce(this)
      [] this.k = "L" -> CppAbstractionReduce(this, u, n)
      [] this.k = "A" -> CppApplicationReduce(this, u, n)

CppVariableApply(this, arg, u, n) ==
    IF arg.k \in {"V", "L"}
    THEN App(VariableCopy(this), Copy(arg))
    ELSE CHOOSE out \in
             { IF ~IsTerm(r) THEN r
               ELSE IF r.k = "A" THEN App(VariableCopy(this), ApplicationCopy(r))
               ELSE IF u.k = "crash" THEN Crash
               ELSE App(VariableCopy(this), u)
               : r \in {CppReduce(arg, u, n)} } : TRUE

\* return definition->substitute(variable, argument);
CppAbstractionApply(this, arg) == substitute(this.b, this.v, arg)

CppApplicationApply(this, arg, u, n) ==
    IF n = 0 THEN Diverge
    ELSE CHOOSE out \in
             { IF ~IsTerm(r) THEN r
               ELSE IF to_string(r) = to_string(this)
                    THEN App(ApplicationCopy(this), Copy(arg))
                    ELSE CppApply(r, arg, u, n - 1)
               : r \in {CppReduce(this, u, n - 1)} } : TRUE

CppApply(this, arg, u, n) ==
    CASE this.k = "V" -> CppVariableApply(this, arg, u, n)
      [] this.k = "L" -> CppAbstractionApply(this, arg)
      [] this.k = "A" -> CppApplicationApply(this, arg, u, n)

\* what is compared of two outcomes: the rendering of a term, or that the
\* call died or did not return
Outcome(r) == IF IsTerm(r) THEN to_string(r) ELSE <<r.k>>

----------------------------------------------------------------------------
(* Reading a rendering back (used to state claims, not part of the         *)
(* program).                                                               *)

\* the characters to_string adds
Delimiters == {"(", ")", "[", "]", "\\", ".", " "}

\* every name in t, of a Variable or of a binder, is not empty and holds
\* no delimiter
RECURSIVE WellNamed(_)
WellNamed(t) ==
    CASE t.k = "V" -> t.n # <<>> /\ \A i \in 1..Len(t.n) : t.n[i] \notin Delimiters
      [] t.k = "L" -> WellNamed(t.v) /\ WellNamed(t.b)
      [] t.k = "A" -> WellNamed(t.f) /\ WellNamed(t.a)

\* the length of the longest prefix of s without a delimiter
RECURSIVE NameLen(_)
NameLen(s) ==
    IF s = <<>> \/ Head(s) \in Delimiters THEN 0 ELSE 1 + NameLen(Tail(s))

Drop(s, k) == SubSeq(s, k + 1, Len(s))
Unread == [ok |-> FALSE]

\* the term that a prefix of s renders, with what follows it
RECURSIVE ReadTerm(_)
ReadTerm(s) ==
    IF s = <<>> THEN Unread
    ELSE IF Head(s) = "("
    THEN IF Len(s) < 2 \/ s[2] # "\\" THEN Unread
         ELSE LET k == NameLen(Drop(s, 2))
                  after == Drop(s, 2 + k)
              IN  IF k = 0 \/ after = <<>> \/ Head(after) # "." THEN Unread
                  ELSE LET body == ReadTerm(Tail(after))
                       IN  IF ~body.ok \/ body.rest = <<>>
                              \/ Head(body.rest) # ")"
                           THEN Unread
                           ELSE [ok |-> TRUE,
                                 t |-> Abs(Var(SubSeq(s, 3, 2 + k)), body.t),
                                 rest |-> Tail(body.rest)]
    ELSE IF Head(s) = "["
    THEN LET fn == ReadTerm(Tail(s))
         IN  IF ~fn.ok \/ fn.rest = <<>> \/ Head(fn.rest) # " " THEN Unread
             ELSE LET ar == ReadTerm(Tail(fn.rest))
                  IN  IF ~ar.ok \/ ar.rest = <<>> \/ Head(ar.rest) # "]"
                      THEN Unread
                      ELSE [ok |-> TRUE, t |-> App(fn.t, ar.t),
                            rest |-> Tail(ar.rest)]
    ELSE LET k == NameLen(s)
         IN  IF k = 0 THEN Unread
             ELSE [ok |-> TRUE, t |-> Var(SubSeq(s, 1, k)), rest |-> Drop(s, k)]

\* the term s renders, if it renders one and nothing more
Read(s) ==
    LET r == ReadTerm(s)
    IN  IF r.ok /\ r.rest = <<>> THEN r.t ELSE Null

\* C28: on terms whose names are not empty and hold no delimiter,
\* to_string is injective: a comparison of renderings finds them equal
\* only for one and the same tree, and the tree can be read back from its
\* rendering.
C28_RenderInjective ==
    (op = "compare" /\ WellNamed(self) /\ WellNamed(argument))
    => /\ result.eq <=> self = argument
       /\ Read(to_string(self)) = self
       /\ Read(to_string(argument)) = argument

\* C28 witness: two terms of one length and the same characters but for
\* the place of the space, found different.
C28_Witness ==
    /\ op = "compare" /\ WellNamed(self) /\ WellNamed(argument)
    /\ self = App(Var(name_xy), Var(x)) /\ argument = App(Var(x), Var(name_yx))
    /\ ~result.eq

\* C28 witness: with a delimiter in a name, two trees render the same.
C28_DelimiterWitness ==
    /\ op = "compare" /\ ~WellNamed(self) /\ WellNamed(argument)
    /\ self # argument
    /\ result.eq

\* C29: substitute for a variable that is not free in the receiver, and
\* substitute of a Variable for the variable of its own name, return a
\* term that renders as the receiver.
C29_SubstituteNoOp ==
    op = "substitute"
    => /\ variable.n \notin FreeNames(self) =>
             /\ to_string(result) = to_string(self)
             /\ result = self
       /\ argument = variable => to_string(result) = to_string(self)

\* C29 witness: the target is bound in the receiver, not free, and the
\* replacement is no Variable.
C29_Witness ==
    /\ op = "substitute"
    /\ variable.n \notin FreeNames(self) /\ variable.n \in BoundNames(self)
    /\ self.k = "A" /\ argument.k # "V"
    /\ to_string(result) = to_string(self)

\* C29 witness: the target replaced by itself at a free occurrence.
C29_SelfWitness ==
    /\ op = "substitute" /\ argument = variable
    /\ variable.n \in FreeNames(self) /\ self.k # "V"
    /\ to_string(result) = to_string(self)

\* i applications of f to x, rendered
RECURSIVE NestedString(_)
NestedString(i) ==
    IF i = 0 THEN <<"x">>
    ELSE <<"[", "f", " ">> \o NestedString(i - 1) \o <<"]">>

\* the Church numeral of i, rendered
ChurchString(i) ==
    <<"(", "\\", "f", ".", "(", "\\", "x", ".">> \o NestedString(i)
        \o <<")", ")">>

\* C30: NAT(n) renders as the Church numeral of n for n >= 1 and as ZERO,
\* `(\f.(\x.x))`, for n <= 0, and reduce of it renders as it does.
C30_NAT ==
    /\ op \in {"NAT", "NAT.reduce"} =>
          /\ argument.i >= 1 => to_string(self) = ChurchString(argument.i)
          /\ argument.i <= 0 =>
                /\ to_string(self) = to_string(ZERO)
                /\ to_string(self) = ChurchString(0)
    /\ op = "NAT.reduce" =>
          /\ IsTerm(result)
          /\ to_string(result) = to_string(self)
          /\ ub.k = "null"

\* C30 witness: NAT(3), reduced.
C30_Witness ==
    /\ op = "NAT.reduce" /\ argument.i = 3
    /\ to_string(self) = ChurchString(3)
    /\ to_string(result) = to_string(self)

\* C30 witness: NAT of a negative int, reduced.
C30_ZeroWitness ==
    /\ op = "NAT.reduce" /\ argument.i < 0
    /\ self = ZERO /\ result = ZERO

====
